---- MODULE Spec2Model ----
(***************************************************************************)
(* Model of the toykern region allocator (mem.c) and of the memtest.c      *)
(* driver.  The managed region is modelled as raw memory: a function from  *)
(* byte addresses to the 32-bit word stored at that address.  Block        *)
(* headers (mcb_t) and free-list links (freelist_links_t) are read and     *)
(* written through that memory at the offsets the x86-64 build gives them, *)
(* so stale headers, links overlaying the payload and partial overlaps are *)
(* part of the model.                                                      *)
(*                                                                         *)
(* The second part models the process manager (proc.c) and the proctest.c  *)
(* driver on top of the same memory: PCBs and stacks are blocks obtained   *)
(* from memAlloc, and the fields of a PCB are words of the region.         *)
(***************************************************************************)
EXTENDS Integers, Sequences, FiniteSets, TLC

VARIABLES mem,       \* the bytes of the managed region (char space[])
          mcb,       \* mcb_t *mcb: first block in address order
          endMem,    \* mcb_t *endMem: one past the region
          freelist,  \* mcb_t *freelist: head of the size-sorted free list
          pc,        \* position of the driver: "boot", "stress", "s1", or "fault"
                     \* once a call has stored outside the region (SIGSEGV)
          step,      \* statement of the S1 block of memtest.c main reached so far
          ptr,       \* void *ptr[4] of the S1 block
          live,      \* pointers returned by memAlloc and not yet passed to memFree
          ptrs,      \* every pointer memAlloc ever returned
          last,      \* the last call: operation, argument, result, and whether the
                     \* argument of a memFree was a live allocation
          ops,       \* number of calls made by the stress driver
          readyQ,      \* pcb_t *readyQ: head of the queue of ready processes
          readyQEnd,   \* pcb_t *readyQEnd: end of readyQ
          runningProc, \* pcb_t *runningProc: the process that is running
          procId,      \* int procId: counter used to generate process ids
          cpu,         \* the PCB of the context that is executing (NULL when the
                       \* context has no PCB); differs from runningProc once the
                       \* running process has deleted itself and was not switched out
          ctx,         \* per context, keyed by PCB: where it is suspended or about
                       \* to resume (at: "start", "create", "yield", "delete", or
                       \* "exit" for a procDelete of its own pid; "user" while it
                       \* runs its own code), the local proc of a suspended procCreate
                       \* (arg) and the pid that call assigned (pid), its start
                       \* function (fn), the statement of that function reached
                       \* (ip), the result of its last call (ret)
          out,         \* lines printed by proctest.c, as <<process, number>>
          p1Pid,       \* int p1Pid of proctest.c
          p2Pid,       \* int p2Pid of proctest.c
          inits,       \* number of procInit calls made
          leaked       \* the PCBs and stacks of the processes that deleted
                       \* themselves (payload addresses)

procVars == <<readyQ, readyQEnd, runningProc, procId, cpu, ctx, out, p1Pid, p2Pid, inits,
              leaked>>

vars == <<mem, mcb, endMem, freelist, pc, step, ptr, live, ptrs, last, ops,
          readyQ, readyQEnd, runningProc, procId, cpu, ctx, out, p1Pid, p2Pid, inits,
          leaked>>

\* ------------------------------------------------------------------------
\* Bounds of the exploration
\* ------------------------------------------------------------------------
MaxRegion == 164     \* largest region handed to memInit by the stress driver
MaxReq == 48         \* largest request of the stress driver
MaxOps == 8          \* number of calls the stress driver makes
Fuel == 40           \* longest list walk followed before it is declared unbounded


\* ------------------------------------------------------------------------
\* Program constants (x86-64, LP64)
\* ------------------------------------------------------------------------
NULL == 0
SizeofInt == 4
PtrSize == 8
MAGIC_USED == 1296387413
MAGIC_FREE == 1296387398
Base == 4096
INT_MAX == 2147483647
INT_MIN == (-INT_MAX) - 1
Fault == NULL - 1

HeaderSize == PtrSize + 4 + SizeofInt
LinksSize == PtrSize + PtrSize
MIN_FREE_BLOCK == HeaderSize + LinksSize

\* the smallest region memInit accepts (one header and one pair of free-list
\* links) and two larger ones, the first of them no multiple of sizeof(int)
RegionSizes == {MIN_FREE_BLOCK, MaxRegion - 34, MaxRegion}

\* inputs of the stress driver: region contents before memInit, requests
Fills == {0, MAGIC_USED}
ReqSizes == {0, 17, MaxReq, INT_MAX}

S1Size == 610 + (3 * HeaderSize)
TestSize == 610 + (32 * 3)

\* ------------------------------------------------------------------------
\* Raw memory access.  h is the allocator state
\*   [mem, mcb, endMem, freelist, wild];
\* wild becomes TRUE when a call stores outside the region or walks a list
\* without end.
\* ------------------------------------------------------------------------
Heap == [mem |-> mem, mcb |-> mcb, endMem |-> endMem, freelist |-> freelist, wild |-> FALSE]

Rd(h, a) == IF a \in DOMAIN h.mem THEN h.mem[a] ELSE 0

Wr(h, a, v) ==
    IF a \in DOMAIN h.mem /\ (a + 3) \in DOMAIN h.mem
    THEN [h EXCEPT !.mem = [h.mem EXCEPT ![a] = v]]
    ELSE [h EXCEPT !.wild = TRUE]

\* A pointer is 8 bytes: the low word holds the address, the high word is 0.
WrPtr(h, a, v) ==
    IF a \in DOMAIN h.mem /\ (a + PtrSize - 1) \in DOMAIN h.mem
    THEN [h EXCEPT !.mem = [h.mem EXCEPT ![a] = v, ![a + 4] = 0]]
    ELSE [h EXCEPT !.wild = TRUE]

mcbAddr(m) == m + HeaderSize

GetPrev(h, m) == Rd(h, m)
GetMagic(h, m) == Rd(h, m + PtrSize)
GetSize(h, m) == Rd(h, m + PtrSize + 4)
GetLarger(h, m) == Rd(h, mcbAddr(m))
GetSmaller(h, m) == Rd(h, mcbAddr(m) + PtrSize)

SetPrev(h, m, v) == WrPtr(h, m, v)
SetMagic(h, m, v) == Wr(h, m + PtrSize, v)
SetSize(h, m, v) == Wr(h, m + PtrSize + 4, v)
SetLarger(h, m, v) == WrPtr(h, mcbAddr(m), v)
SetSmaller(h, m, v) == WrPtr(h, mcbAddr(m) + PtrSize, v)

mcbNext(h, m) ==
    LET next == m + HeaderSize + GetSize(h, m)
    IN  IF next = h.endMem THEN NULL ELSE next

\* ------------------------------------------------------------------------
\* Free list
\* ------------------------------------------------------------------------
\* insertFreeScan with the comparison reversed: the walk stops at the first
\* block that is larger than m, which sorts the list in increasing size
RECURSIVE insertFreeScanAscending(_, _, _, _, _)
insertFreeScanAscending(h, m, l, s, fuel) ==
    IF s # NULL /\ GetSize(h, m) > GetSize(h, s)
    THEN IF fuel = 0
         THEN <<l, s, TRUE>>
         ELSE insertFreeScanAscending(h, m, s, GetSmaller(h, s), fuel - 1)
    ELSE <<l, s, FALSE>>

RECURSIVE insertFreeScan(_, _, _, _, _)
insertFreeScan(h, m, l, s, fuel) ==
    IF s # NULL /\ GetSize(h, m) < GetSize(h, s)
    THEN IF fuel = 0
         THEN <<l, s, TRUE>>
         ELSE insertFreeScan(h, m, s, GetSmaller(h, s), fuel - 1)
    ELSE <<l, s, FALSE>>

insertFree(h, m) ==
    LET ls == insertFreeScan(h, m, NULL, h.freelist, Fuel)
        l  == ls[1]
        s  == ls[2]
        h0 == IF ls[3] THEN [h EXCEPT !.wild = TRUE] ELSE h
        h1 == SetLarger(h0, m, l)
        h2 == IF l # NULL THEN SetSmaller(h1, l, m) ELSE [h1 EXCEPT !.freelist = m]
        h3 == SetSmaller(h2, m, s)
    IN  IF s # NULL THEN SetLarger(h3, s, m) ELSE h3

removeFree(h, m) ==
    LET smaller == GetSmaller(h, m)
        larger  == GetLarger(h, m)
        h1 == IF smaller # NULL THEN SetLarger(h, smaller, larger) ELSE h
        h2 == IF larger # NULL
              THEN SetSmaller(h1, larger, smaller)
              ELSE [h1 EXCEPT !.freelist = smaller]
    IN  SetLarger(SetSmaller(h2, m, NULL), m, NULL)

\* ------------------------------------------------------------------------
\* memInit, memAlloc, memFree
\* ------------------------------------------------------------------------
memInit(h, addr, size) ==
    LET h1 == SetSize(h, addr, size - HeaderSize)
        h2 == SetMagic(h1, addr, MAGIC_FREE)
        h3 == SetPrev(h2, addr, NULL)
        h4 == [h3 EXCEPT !.mcb = addr, !.endMem = addr + size, !.freelist = NULL]
    IN  insertFree(h4, addr)

\* AlignSize without the rounding to sizeof(int)
AlignSizeNoRound(size) == IF size >= 0 /\ size < LinksSize THEN LinksSize ELSE size

\* AlignSize without the mask: sizeof(int) - 1 is added and nothing cleared
AlignSizeNoMask(size) ==
    LET s1 == IF size >= 0 /\ size < LinksSize THEN LinksSize ELSE size
    IN  IF s1 > INT_MAX - SizeofInt THEN INT_MIN ELSE s1 + (SizeofInt - 1)

\* memAlloc, lines 463-467.  size is an int, sizeof is a size_t: the comparison
\* is unsigned, and (size + 3) & ~3 is evaluated in 64 bits and stored back
\* into the int, so a result of 2^31 becomes INT_MIN.
AlignSize(size) ==
    LET s1   == IF size >= 0 /\ size < LinksSize THEN LinksSize ELSE size
        down == s1 - (s1 % SizeofInt)
    IN  IF s1 % SizeofInt = 0 THEN s1
        ELSE IF down > INT_MAX - SizeofInt THEN INT_MIN
        ELSE down + SizeofInt

\* a - b in 32-bit int arithmetic as the -O0 build computes it (wrapping)
Sub32(a, b) == IF b = INT_MIN THEN a + INT_MIN ELSE a - b

\* NoFit that also refuses a block of exactly the requested size
NoFitStrict(h, m, size) == m = NULL \/ GetSize(h, m) <= size

\* memAlloc, line 470: the head of the free list cannot serve the request
NoFit(h, m, size) == m = NULL \/ GetSize(h, m) < size

\* SplitNeeded with a threshold one header too high
SplitNeededLate(balance) == balance < 0 \/ balance > MIN_FREE_BLOCK + HeaderSize

\* SplitNeeded that splits as soon as the balance holds a header
SplitNeededEarly(balance) == balance < 0 \/ balance > HeaderSize

\* memAlloc, line 483: the balance is large enough to become a free block
\* (unsigned comparison: a negative balance compares as a huge value)
SplitNeeded(balance) == balance < 0 \/ balance > MIN_FREE_BLOCK

\* SplitAddr that forgets the header of m
SplitAddrNoHeader(m, size) == m + size

\* memAlloc, line 485: address of the header of the new free block
SplitAddr(m, size) == mcbAddr(m) + size

\* memAlloc, lines 485-495: carve a new free block n out of the tail of m
splitBlock(h, m, size, balance) ==
    LET n    == SplitAddr(m, size)
        next == mcbNext(h, m)
        h1 == SetPrev(h, n, m)
        h2 == IF next # NULL THEN SetPrev(h1, next, n) ELSE h1
        h3 == SetMagic(h2, n, MAGIC_FREE)
        h4 == SetSize(h3, n, balance - HeaderSize)
        h5 == SetSmaller(SetLarger(h4, n, NULL), n, NULL)
    IN  insertFree(h5, n)

\* memAlloc that serves the request from the second block of the free list
\* when there is one
memAllocSecond(h, reqsize) ==
    LET size == AlignSize(reqsize)
        m    == IF GetSmaller(h, h.freelist) # NULL
                THEN GetSmaller(h, h.freelist)
                ELSE h.freelist
    IN  IF NoFit(h, m, size)
        THEN [h |-> h, ret |-> NULL]
        ELSE LET balance == Sub32(GetSize(h, m), size)
                 split   == SplitNeeded(balance)
                 h6 == IF split THEN splitBlock(h, m, size, balance) ELSE h
                 sz == IF split THEN size ELSE size + balance
                 h7 == removeFree(h6, m)
                 h8 == SetMagic(h7, m, MAGIC_USED)
                 h9 == SetSize(h8, m, sz)
             IN  [h |-> h9, ret |-> mcbAddr(m)]

memAlloc(h, reqsize) ==
    LET size == AlignSize(reqsize)
        m    == h.freelist
    IN  IF NoFit(h, m, size)
        THEN [h |-> h, ret |-> NULL]
        ELSE LET balance == Sub32(GetSize(h, m), size)
                 split   == SplitNeeded(balance)
                 h6 == IF split THEN splitBlock(h, m, size, balance) ELSE h
                 sz == IF split THEN size ELSE size + balance
                 h7 == removeFree(h6, m)
                 h8 == SetMagic(h7, m, MAGIC_USED)
                 h9 == SetSize(h8, m, sz)
             IN  [h |-> h9, ret |-> mcbAddr(m)]

\* IsUsed that only rejects a header carrying the FREE magic
IsUsedNotFree(h, m) == GetMagic(h, m) # MAGIC_FREE

\* memFree, line 544: the header just above addr carries the in-use magic
IsUsed(h, m) == GetMagic(h, m) = MAGIC_USED

\* mergePrev that leaves the back-link of the following block on m
mergePrevNoRelink(h, m) ==
    LET prev == GetPrev(h, m)
        a1 == SetMagic(h, m, 0)
        a2 == SetSize(a1, prev, GetSize(a1, prev) + GetSize(a1, m) + HeaderSize)
    IN  insertFree(removeFree(a2, prev), prev)

\* mergePrev that does not merge: m is only put on the free list
mergePrevSkipped(h, m) == insertFree(h, m)

\* mergePrev that grows the predecessor by the payload of m only
mergePrevNoHeader(h, m) ==
    LET prev == GetPrev(h, m)
        a1 == SetMagic(h, m, 0)
        a2 == SetSize(a1, prev, GetSize(a1, prev) + GetSize(a1, m))
        next == mcbNext(a1, m)
        a3 == IF next # NULL THEN SetPrev(a2, next, prev) ELSE a2
    IN  insertFree(removeFree(a3, prev), prev)

\* memFree, lines 557-568: merge m into the free block before it
mergePrev(h, m) ==
    LET prev == GetPrev(h, m)
        a1 == SetMagic(h, m, 0)
        a2 == SetSize(a1, prev, GetSize(a1, prev) + GetSize(a1, m) + HeaderSize)
        next == mcbNext(a2, m)
        a3 == IF next # NULL THEN SetPrev(a2, next, prev) ELSE a2
    IN  insertFree(removeFree(a3, prev), prev)

\* mergeNext that leaves the following free block alone
mergeNextSkipped(h, m, next) == h

\* memFree, lines 576-587: absorb the free block next that follows m
mergeNext(h, m, next) ==
    LET b1 == removeFree(h, next)
        b2 == SetMagic(b1, next, 0)
        b3 == SetSize(b2, m, GetSize(b2, m) + HeaderSize + GetSize(b2, next))
        nnext == mcbNext(b3, next)
        b4 == IF nnext # NULL THEN SetPrev(b3, nnext, m) ELSE b3
    IN  insertFree(removeFree(b4, m), m)

memFree(h, addr) ==
    IF addr = NULL THEN h
    ELSE
    LET m == addr - HeaderSize
    IN  IF ~IsUsed(h, m) THEN h
        ELSE
        LET h1 == SetMagic(h, m, MAGIC_FREE)
            h2 == SetSmaller(SetLarger(h1, m, NULL), m, NULL)
            prev == GetPrev(h2, m)
            hasPrev == prev # NULL /\ GetMagic(h2, prev) = MAGIC_FREE
            hb == IF hasPrev THEN mergePrev(h2, m) ELSE insertFree(h2, m)
            mm == IF hasPrev THEN prev ELSE m
            next == mcbNext(hb, mm)
        IN  IF next # NULL /\ GetMagic(hb, next) = MAGIC_FREE
            THEN mergeNext(hb, mm, next)
            ELSE hb

\* ------------------------------------------------------------------------
\* State machine
\* ------------------------------------------------------------------------
Install(h) ==
    /\ mem' = h.mem
    /\ mcb' = h.mcb
    /\ endMem' = h.endMem
    /\ freelist' = h.freelist

NoCall == [op |-> "none", arg |-> 0, ret |-> 0, waslive |-> FALSE]

\* proc.c: the initialisers of the globals, before main runs
ProcStatics ==
    /\ readyQ = NULL
    /\ readyQEnd = NULL
    /\ runningProc = NULL
    /\ procId = 0
    /\ cpu = NULL
    /\ ctx = <<>>
    /\ out = <<>>
    /\ p1Pid = 0
    /\ p2Pid = 0
    /\ inits = 0
    /\ leaked = {}

Init ==
    /\ \E fill \in Fills, size \in RegionSizes \cup {S1Size, TestSize} :
          mem = [a \in Base .. (Base + size - 1) |-> fill]
    /\ mcb = NULL
    /\ endMem = NULL
    /\ freelist = NULL
    /\ pc = "boot"
    /\ step = 0
    /\ ptr = <<NULL, NULL, NULL, NULL>>
    /\ live = {}
    /\ ptrs = {}
    /\ last = NoCall
    /\ ops = 0
    /\ ProcStatics

RegionLen == Cardinality(DOMAIN mem)

\* memtest.c, third block: memInit(space, size) before the random alloc/free loop
StressInit ==
    /\ pc = "boot"
    /\ RegionLen \in RegionSizes
    /\ Install(memInit(Heap, Base, RegionLen))
    /\ pc' = "stress"
    /\ last' = [op |-> "init", arg |-> RegionLen, ret |-> 0, waslive |-> FALSE]
    /\ UNCHANGED <<step, ptr, live, ptrs, ops>>
    /\ UNCHANGED procVars

\* memtest.c, first block: memInit(space, 610+(32*3))
S1Init ==
    /\ pc = "boot"
    /\ RegionLen \in {S1Size, TestSize}
    /\ Install(memInit(Heap, Base, RegionLen))
    /\ pc' = "s1"
    /\ last' = [op |-> "init", arg |-> RegionLen, ret |-> 0, waslive |-> FALSE]
    /\ UNCHANGED <<step, ptr, live, ptrs, ops>>
    /\ UNCHANGED procVars

\* A call that stores outside the region does not return: the process is
\* killed at the first such store, before any store into the region.
Crash(op, arg) ==
    /\ pc' = "fault"
    /\ last' = [op |-> op, arg |-> arg, ret |-> Fault, waslive |-> FALSE]
    /\ UNCHANGED <<mem, mcb, endMem, freelist, live, ptrs>>

DoAlloc(size) ==
    LET r == memAlloc(Heap, size)
    IN  IF r.h.wild
        THEN Crash("alloc", size)
        ELSE /\ Install(r.h)
             /\ last' = [op |-> "alloc", arg |-> size, ret |-> r.ret, waslive |-> FALSE]
             /\ live' = IF r.ret = NULL THEN live ELSE live \cup {r.ret}
             /\ ptrs' = IF r.ret = NULL THEN ptrs ELSE ptrs \cup {r.ret}
             /\ UNCHANGED pc

DoFree(p) ==
    LET h == memFree(Heap, p)
    IN  IF h.wild
        THEN Crash("free", p)
        ELSE /\ Install(h)
             /\ last' = [op |-> "free", arg |-> p, ret |-> 0, waslive |-> p \in live]
             /\ live' = live \ {p}
             /\ UNCHANGED <<ptrs, pc>>

StressAlloc ==
    /\ pc = "stress"
    /\ ops < MaxOps
    /\ ops' = ops + 1
    /\ \E size \in ReqSizes : DoAlloc(size)
    /\ UNCHANGED <<step, ptr>>
    /\ UNCHANGED procVars

\* memFree of a live pointer, of a pointer freed earlier, or of NULL
StressFree ==
    /\ pc = "stress"
    /\ ops < MaxOps
    /\ ops' = ops + 1
    /\ \E p \in ptrs \cup {NULL} : DoFree(p)
    /\ UNCHANGED <<step, ptr>>
    /\ UNCHANGED procVars

S1Req == <<100, 200, 300, 30>>
S1Order == <<1, 3, 2, 4>>

\* memtest.c: ptr[0] = memAlloc(100); ... ptr[3] = memAlloc(30);
S1Alloc ==
    /\ pc = "s1"
    /\ step < 4
    /\ DoAlloc(S1Req[step + 1])
    /\ ptr' = [ptr EXCEPT ![step + 1] = memAlloc(Heap, S1Req[step + 1]).ret]
    /\ step' = step + 1
    /\ UNCHANGED ops
    /\ UNCHANGED procVars

\* memtest.c: memFree(ptr[0]); memFree(ptr[2]); memFree(ptr[1]); memFree(ptr[3]);
S1Free ==
    /\ pc = "s1"
    /\ step >= 4
    /\ step < 8
    /\ DoFree(ptr[S1Order[step - 3]])
    /\ step' = step + 1
    /\ UNCHANGED <<ops, ptr>>
    /\ UNCHANGED procVars

Next ==
    \/ StressInit
    \/ S1Init
    \/ StressAlloc
    \/ StressFree
    \/ S1Alloc
    \/ S1Free

Spec == Init /\ [][Next]_vars

\* ------------------------------------------------------------------------
\* The two lists as sanityCheck walks them
\* ------------------------------------------------------------------------
\* the blocks reached from m through mcbNext, in address order
RECURSIVE ChainFrom(_, _, _)
ChainFrom(h, m, fuel) ==
    IF m = NULL \/ fuel = 0 \/ m \notin DOMAIN h.mem
    THEN <<>>
    ELSE <<m>> \o ChainFrom(h, mcbNext(h, m), fuel - 1)

\* the blocks reached from m through the smaller links
RECURSIVE FreeFrom(_, _, _)
FreeFrom(h, m, fuel) ==
    IF m = NULL \/ fuel = 0 \/ m \notin DOMAIN h.mem
    THEN <<>>
    ELSE <<m>> \o FreeFrom(h, GetSmaller(h, m), fuel - 1)

Chain == ChainFrom(Heap, mcb, Fuel)
FreeSeq == FreeFrom(Heap, freelist, Fuel)
HeapNext == [mem |-> mem', mcb |-> mcb', endMem |-> endMem', freelist |-> freelist', wild |-> FALSE]

Range(f) == {f[i] : i \in DOMAIN f}
Initialised == pc # "boot"
FreeBlocks == {b \in Range(Chain) : GetMagic(Heap, b) = MAGIC_FREE}
Payload(p) == p .. (p + GetSize(Heap, p - HeaderSize) - 1)
HeaderBytes(b) == b .. (b + HeaderSize - 1)
AllocatorUnchanged == UNCHANGED <<mem, mcb, endMem, freelist>>

\* max(size, free-link pair) rounded up to a multiple of sizeof(int), stated
\* without reference to the arithmetic of memAlloc
Rounded(size) ==
    CHOOSE r \in 0 .. (size + LinksSize + SizeofInt) :
        /\ r % SizeofInt = 0
        /\ r >= size
        /\ r >= LinksSize
        /\ \A q \in 0 .. (r - 1) : ~(q % SizeofInt = 0 /\ q >= size /\ q >= LinksSize)

\* ------------------------------------------------------------------------
\* Claims
\* ------------------------------------------------------------------------

\* C1: every pointer memAlloc returned lies inside [base, base+size), and the
\* payloads of the allocations live at the same time are disjoint from each
\* other and from every block header.
C1_LiveDisjoint ==
    Initialised =>
        /\ \A p \in ptrs : p >= Base /\ p < Base + RegionLen
        /\ \A p \in live : Payload(p) \subseteq DOMAIN mem
        /\ \A p \in live : \A q \in live : p # q => Payload(p) \cap Payload(q) = {}
        /\ \A p \in live : \A b \in Range(Chain) : Payload(p) \cap HeaderBytes(b) = {}

C1_Witness ==
    /\ Cardinality(live) >= 3
    /\ last.op = "alloc"
    /\ last.ret # NULL
    /\ Cardinality(ptrs \ live) >= 1

\* C2: a successful memAlloc(size) records a payload size s with
\* r <= s <= r + MIN_FREE_BLOCK, r the rounded request; memAlloc(0) succeeds
\* whenever some free block has a payload of at least the free-link pair.
C2_AllocStep ==
    last'.op = "alloc" =>
        /\ last'.ret \notin {NULL, Fault} =>
              LET s == GetSize(HeapNext, last'.ret - HeaderSize)
                  r == Rounded(last'.arg)
              IN  r <= s /\ s <= r + MIN_FREE_BLOCK
        /\ (last'.arg = 0 /\ \E b \in FreeBlocks : GetSize(Heap, b) >= LinksSize)
              => last'.ret \notin {NULL, Fault}

C2_RecordedSize == [][C2_AllocStep]_vars

C2_Witness ==
    /\ last.op = "alloc"
    /\ last.arg = 0
    /\ last.ret # NULL
    /\ GetSize(Heap, last.ret - HeaderSize) = LinksSize + MIN_FREE_BLOCK

\* C3: the blocks reached from the region head tile the region exactly, every
\* magic is USED or FREE, the first prev is null and every other prev is the
\* address-order predecessor.
C3_ChainTiles ==
    Initialised =>
        /\ mcb = Base
        /\ endMem = Base + RegionLen
        /\ Len(Chain) >= 1
        /\ Chain[1] = mcb
        /\ \A i \in 1 .. Len(Chain) :
              /\ GetMagic(Heap, Chain[i]) \in {MAGIC_USED, MAGIC_FREE}
              /\ GetSize(Heap, Chain[i]) >= 0
              /\ Chain[i] + HeaderSize + GetSize(Heap, Chain[i]) <= endMem
              /\ i > 1 => /\ GetPrev(Heap, Chain[i]) = Chain[i - 1]
                          /\ Chain[i] = Chain[i - 1] + HeaderSize + GetSize(Heap, Chain[i - 1])
        /\ GetPrev(Heap, Chain[1]) = NULL
        /\ Chain[Len(Chain)] + HeaderSize + GetSize(Heap, Chain[Len(Chain)]) = endMem

C3_Witness ==
    /\ Len(Chain) >= 4
    /\ last.op = "free"
    /\ last.waslive
    /\ ptrs \ live # {}

\* C4: no two address-adjacent blocks are both FREE.
C4_NoAdjacentFree ==
    Initialised =>
        \A i \in 1 .. (Len(Chain) - 1) :
            ~(GetMagic(Heap, Chain[i]) = MAGIC_FREE /\ GetMagic(Heap, Chain[i + 1]) = MAGIC_FREE)

\* a free that merged with the block after it and left a free block between
\* two used ones
C4_Witness ==
    /\ last.op = "free"
    /\ last.waslive
    /\ \E i \in 2 .. (Len(Chain) - 1) :
          /\ GetMagic(Heap, Chain[i]) = MAGIC_FREE
          /\ Chain[i] = last.arg - HeaderSize
          /\ GetSize(Heap, Chain[i]) > 2 * MIN_FREE_BLOCK

\* C5: the free list holds every FREE block exactly once and no USED block,
\* its sizes are non-increasing, larger and smaller are mutual inverses and
\* only the head has a null larger link.
C5_FreeListSorted ==
    Initialised =>
        /\ Len(FreeSeq) < Fuel
        /\ Range(FreeSeq) = FreeBlocks
        /\ \A i \in 1 .. Len(FreeSeq) : \A j \in 1 .. Len(FreeSeq) :
              i # j => FreeSeq[i] # FreeSeq[j]
        /\ \A i \in 1 .. (Len(FreeSeq) - 1) :
              /\ GetSize(Heap, FreeSeq[i]) >= GetSize(Heap, FreeSeq[i + 1])
              /\ GetLarger(Heap, FreeSeq[i + 1]) = FreeSeq[i]
              /\ GetSmaller(Heap, FreeSeq[i]) = FreeSeq[i + 1]
        /\ FreeSeq # <<>> => /\ GetLarger(Heap, FreeSeq[1]) = NULL
                             /\ GetSmaller(Heap, FreeSeq[Len(FreeSeq)]) = NULL
        /\ (freelist = NULL) <=> (FreeBlocks = {})

\* three free blocks, the one freed last spliced in between two others
C5_Witness ==
    /\ Len(FreeSeq) >= 3
    /\ last.op = "free"
    /\ last.waslive
    /\ FreeSeq[2] = last.arg - HeaderSize

\* C6: once every live allocation has been freed the region holds exactly one
\* block, FREE, of payload size minus one header, sole entry of the free list.
C6_AllFreed ==
    (Initialised /\ live = {}) =>
        /\ Chain = <<Base>>
        /\ GetMagic(Heap, Base) = MAGIC_FREE
        /\ GetSize(Heap, Base) = RegionLen - HeaderSize
        /\ FreeSeq = <<Base>>

\* three allocations were made and the last of them has just been freed
C6_Witness ==
    /\ live = {}
    /\ Cardinality(ptrs) >= 3
    /\ last.op = "free"
    /\ last.waslive

\* a payload of sz bytes holds the request rounded up: some multiple of
\* sizeof(int) that is at least the request and the free-link pair fits in it
Serves(sz, req) ==
    \E r \in 0 .. sz : r % SizeofInt = 0 /\ r >= req /\ r >= LinksSize

\* C7: memAlloc returns null exactly when no FREE block has a payload of at
\* least the rounded request, and a call that returns null changes nothing.
C7_AllocStep ==
    last'.op = "alloc" =>
        /\ (last'.ret = NULL) <=>
              ~(\E b \in FreeBlocks : Serves(GetSize(Heap, b), last'.arg))
        /\ last'.ret = NULL => AllocatorUnchanged

C7_NullIffNoFit == [][C7_AllocStep]_vars

\* C7, for the requests whose rounded size fits an int: the statement holds
C7_InRange == [][last'.arg <= INT_MAX - SizeofInt + 1 => C7_AllocStep]_vars

\* no call stores outside the region, except memAlloc of a request whose
\* rounding overflows the int
OnlyOverflowCrashes ==
    pc = "fault" => (last.op = "alloc" /\ last.arg > INT_MAX - SizeofInt + 1)

\* a refused request while a free block exists
C7_Witness ==
    /\ last.op = "alloc"
    /\ last.ret = NULL
    /\ FreeBlocks # {}
    /\ Cardinality(live) >= 2

\* C8: memFree(null) and memFree(p) with a header that does not carry the
\* USED magic change nothing; a pointer that was freed and not returned
\* again never has the USED magic in front of it.
C8_FreeStep ==
    last'.op = "free" =>
        /\ (last'.arg = NULL \/ GetMagic(Heap, last'.arg - HeaderSize) # MAGIC_USED)
              => AllocatorUnchanged
        /\ (last'.arg # NULL /\ ~last'.waslive)
              => GetMagic(Heap, last'.arg - HeaderSize) # MAGIC_USED

C8_RejectedFree == [][C8_FreeStep]_vars

\* a second free of a pointer whose block was merged into a neighbour
C8_Witness ==
    /\ last.op = "free"
    /\ last.arg # NULL
    /\ ~last.waslive
    /\ GetMagic(Heap, last.arg - HeaderSize) = 0
    /\ live # {}

\* C9: with the base aligned to sizeof(int), every returned pointer is at an
\* offset from the base that is a multiple of sizeof(int).
C9_Aligned ==
    (Initialised /\ Base % SizeofInt = 0) =>
        \A p \in ptrs : (p - Base) % SizeofInt = 0

C9_Witness ==
    /\ RegionLen % SizeofInt # 0
    /\ last.op = "alloc"
    /\ last.arg % SizeofInt # 0
    /\ last.ret # NULL
    /\ Cardinality(ptrs) >= 3

\* C10: scenario S1 on a region of 610 + 3*sizeof(mcb_t) bytes: the first
\* three allocations succeed, the fourth returns null, and after the four
\* frees one FREE block covers the region minus one header.
C10_ScenarioS1 ==
    (pc = "s1" /\ RegionLen = S1Size) =>
        /\ step >= 1 => ptr[1] # NULL
        /\ step >= 2 => ptr[2] # NULL
        /\ step >= 3 => ptr[3] # NULL
        /\ step >= 4 => ptr[4] = NULL
        /\ step = 8 =>
              /\ Chain = <<Base>>
              /\ GetMagic(Heap, Base) = MAGIC_FREE
              /\ GetSize(Heap, Base) = S1Size - HeaderSize
              /\ FreeSeq = <<Base>>

C10_Witness ==
    /\ pc = "s1"
    /\ RegionLen = S1Size
    /\ step = 8
    /\ last.op = "free"
    /\ last.arg = NULL

\* ========================================================================
\* Process manager (proc.c) and the proctest.c driver
\* ========================================================================
STACKSZ == 32        \* bytes of a process stack in the exploration; the
                     \* source gives 128 KiB to each process
MaxSpace == 440      \* largest region proctest hands to memInit
MaxCreates == 3      \* number of procCreate calls made by arbitrary code
MaxInits == 2        \* number of procInit calls the stress driver makes

MAGIC_PROC == 1347571523
READY == 0
RUNNING == 1

\* pcb_t on x86-64: next, magic, pid, state, 4 bytes of padding, stackAddr,
\* resumeAddr, stackPtr, framePtr
OffNext == 0
OffMagic == PtrSize
OffPid == OffMagic + 4
OffState == OffPid + SizeofInt
OffStackAddr == OffState + 4 + 4
OffResumeAddr == OffStackAddr + PtrSize
OffStackPtr == OffResumeAddr + PtrSize
OffFramePtr == OffStackPtr + PtrSize
PcbSize == OffFramePtr + PtrSize

\* the stack pointer of the code that calls procInit: an address of the host
\* stack, outside the region
HostSP == Base - PtrSize

\* addresses of the functions a process can start in
FnMain == 1
FnProcess1 == FnMain + 1
FnProcess2 == FnProcess1 + 1
FnAny == FnProcess2 + 1

\* the state of the kernel a call works on: the allocator and the globals of
\* proc.c
Kern ==
    [h |-> Heap, readyQ |-> readyQ, readyQEnd |-> readyQEnd,
     runningProc |-> runningProc, procId |-> procId]

\* a load through a pointer that does not point into the region (SIGSEGV)
BadLoad(h, a) == a \notin DOMAIN h.mem

PcbNext(h, p) == Rd(h, p + OffNext)
PcbPid(h, p) == Rd(h, p + OffPid)
PcbState(h, p) == Rd(h, p + OffState)
PcbMagic(h, p) == Rd(h, p + OffMagic)
PcbStackAddr(h, p) == Rd(h, p + OffStackAddr)
PcbStackPtr(h, p) == Rd(h, p + OffStackPtr)

\* the value of the stack pointer register while the context with PCB p
\* executes sched.  The frames a context leaves on its stack are carried by
\* ctx, not by stack bytes; the register is an address of the context's stack.
Rsp(h, p) ==
    IF p = NULL \/ PcbStackAddr(h, p) = NULL
    THEN HostSP
    ELSE PcbStackAddr(h, p)

\* ------------------------------------------------------------------------
\* sched: returns the kernel state and the process switched to (NULL when
\* the ready queue is empty and the caller continues)
\* ------------------------------------------------------------------------
\* the enqueue of the outgoing process with the dispatched process left at
\* the head of the queue
schedEnqueueNoDequeue(k, rq) ==
    IF rq = NULL
    THEN [k EXCEPT !.readyQEnd = k.runningProc,
                   !.h = WrPtr(k.h, k.readyQ + OffNext, k.runningProc)]
    ELSE [k EXCEPT !.h = WrPtr(k.h, k.readyQEnd + OffNext, k.runningProc),
                   !.readyQEnd = k.runningProc]

\* the enqueue of the outgoing process at the head of the queue
schedEnqueueAtHead(k, rq) ==
    IF rq = NULL
    THEN [k EXCEPT !.readyQ = k.runningProc, !.readyQEnd = k.runningProc]
    ELSE [k EXCEPT !.readyQ = k.runningProc,
                   !.h = WrPtr(k.h, k.runningProc + OffNext, rq)]

\* "Put current running proc into readyQ"; rq is readyQ after the dequeue and
\* k.readyQEnd is already NULL when rq is
schedEnqueue(k, rq) ==
    IF rq = NULL
    THEN [k EXCEPT !.readyQ = k.runningProc, !.readyQEnd = k.runningProc]
    ELSE [k EXCEPT !.readyQ = rq,
                   !.h = WrPtr(k.h, k.readyQEnd + OffNext, k.runningProc),
                   !.readyQEnd = k.runningProc]

sched(k) ==
    LET proc == k.readyQ
    IN  IF proc = NULL
        THEN [k |-> k, to |-> NULL]
        ELSE LET oldProc == k.runningProc
                 rq == PcbNext(k.h, proc)
                 k1 == [k EXCEPT !.readyQEnd = IF rq = NULL THEN NULL ELSE @]
                 k2 == schedEnqueue(k1, rq)
                 newStackPtr == PcbStackPtr(k2.h, proc)
                 k3 == [k2 EXCEPT !.runningProc = proc,
                                  !.h = WrPtr(k2.h, proc + OffNext, NULL)]
                 oldStackPtr == Rsp(k.h, oldProc)
                 k4 == IF oldProc # NULL
                       THEN [k3 EXCEPT !.h = WrPtr(k3.h, oldProc + OffStackPtr, oldStackPtr)]
                       ELSE k3
             IN  [k |-> k4, to |-> proc]

\* ------------------------------------------------------------------------
\* procInit; stack is the stack pointer of the caller
\* ------------------------------------------------------------------------
\* the stores of procInit into the PCB that memAlloc returned (r)
procInitPcb(k0, r, stack) ==
    IF r.ret = NULL
    THEN [k0 EXCEPT !.h = r.h]
    ELSE LET h1 == Wr(r.h, r.ret + OffMagic, MAGIC_PROC)
             h2 == Wr(h1, r.ret + OffPid, k0.procId)
             h3 == Wr(h2, r.ret + OffState, READY)
             h4 == WrPtr(h3, r.ret + OffStackAddr, NULL)
             h5 == WrPtr(h4, r.ret + OffStackPtr, stack)
         IN  [k0 EXCEPT !.h = h5, !.procId = k0.procId + 1, !.runningProc = r.ret]

\* "proc = memAlloc(sizeof(pcb_t))" and what follows it
procInitAlloc(k0, stack) == procInitPcb(k0, memAlloc(k0.h, PcbSize), stack)

\* procInit without the reset of the pid counter
procInitKeepsProcId(k, stack) ==
    procInitAlloc([k EXCEPT !.readyQ = NULL, !.readyQEnd = NULL, !.runningProc = NULL],
                  stack)

procInit(k, stack) ==
    procInitAlloc([k EXCEPT !.readyQ = NULL, !.readyQEnd = NULL, !.runningProc = NULL,
                            !.procId = 0],
                  stack)

\* ------------------------------------------------------------------------
\* procCreate: returns the kernel state, the value returned when the call
\* returns at once (ret), the process switched to (to) and the local proc
\* ------------------------------------------------------------------------
Pending == Fault - 1     \* in place of a result: the caller was switched out

\* the initial stack pointer without the slot of the dummy frame pointer
InitialStackPtrNoDummy(stack) == stack + STACKSZ - PtrSize

\* the saved stack pointer of a new process: the start address is stored in
\* the topmost slot of the stack, the slot below it is popped as frame pointer
InitialStackPtr(stack) == (stack + STACKSZ - PtrSize) - PtrSize

\* the failure path of the stack allocation without the memFree of the PCB
procCreateNoStackKeepsPcb(h, proc) == h

\* "if (stack == NULL) { memFree(proc); return (-1); }"
procCreateNoStack(h, proc) == memFree(h, proc)

\* the PCB is filled in, put at the head of readyQ, and sched runs
procCreateQueue(k, start, proc, stack, h) ==
    LET h1 == Wr(h, proc + OffPid, k.procId)
        h2 == Wr(h1, proc + OffState, READY)
        h3 == WrPtr(h2, proc + OffStackAddr, stack)
        h4 == WrPtr(h3, stack + STACKSZ - PtrSize, start)
        h5 == WrPtr(h4, proc + OffStackPtr, InitialStackPtr(stack))
        h6 == WrPtr(h5, proc + OffNext, k.readyQ)
    IN  [k EXCEPT !.h = h6,
                  !.procId = k.procId + 1,
                  !.readyQ = proc,
                  !.readyQEnd = IF k.readyQ = NULL THEN proc ELSE @]

procCreateSched(s, proc) == [k |-> s.k, ret |-> Pending, to |-> s.to, proc |-> proc]

\* "stack = memAlloc(STACKSZ)" has returned r2
procCreateStack(k, start, proc, r2) ==
    IF r2.ret = NULL
    THEN [k |-> [k EXCEPT !.h = procCreateNoStack(r2.h, proc)],
          ret |-> 0 - 1, to |-> NULL, proc |-> NULL]
    ELSE procCreateSched(sched(procCreateQueue(k, start, proc, r2.ret, r2.h)), proc)

\* "proc = memAlloc(sizeof(pcb_t))" has returned r1
procCreatePcb(k, start, r1) ==
    IF r1.ret = NULL
    THEN [k |-> [k EXCEPT !.h = r1.h], ret |-> 0 - 1, to |-> NULL, proc |-> NULL]
    ELSE procCreateStack(k, start, r1.ret, memAlloc(r1.h, STACKSZ))

procCreate(k, start) == procCreatePcb(k, start, memAlloc(k.h, PcbSize))

\* ------------------------------------------------------------------------
\* procDelete and procYield: return the kernel state and the process
\* switched to
\* ------------------------------------------------------------------------
\* the search of readyQ for pid: <<proc, prevProc, faulted>>
RECURSIVE procFind(_, _, _, _, _)
procFind(h, proc, prevProc, pid, fuel) ==
    IF proc = NULL
    THEN <<NULL, prevProc, FALSE>>
    ELSE IF fuel = 0 \/ BadLoad(h, proc + OffPid)
    THEN <<proc, prevProc, TRUE>>
    ELSE IF PcbPid(h, proc) = pid
    THEN <<proc, prevProc, FALSE>>
    ELSE procFind(h, PcbNext(h, proc), proc, pid, fuel - 1)

\* procUnlink that leaves the list alone when proc is neither the head nor
\* the end of readyQ
procUnlinkNoSplice(k, proc, prevProc) ==
    IF proc = k.readyQ
    THEN LET rq == PcbNext(k.h, proc)
         IN  [k EXCEPT !.readyQ = rq, !.readyQEnd = IF rq = NULL THEN NULL ELSE @]
    ELSE IF proc = k.readyQEnd
    THEN [k EXCEPT !.readyQEnd = prevProc,
                   !.h = WrPtr(k.h, prevProc + OffNext, NULL)]
    ELSE k

\* procUnlink that moves readyQEnd back without cutting the link to the
\* removed PCB
procUnlinkKeepsLink(k, proc, prevProc) ==
    IF proc = k.readyQ
    THEN LET rq == PcbNext(k.h, proc)
         IN  [k EXCEPT !.readyQ = rq, !.readyQEnd = IF rq = NULL THEN NULL ELSE @]
    ELSE IF proc = k.readyQEnd
    THEN [k EXCEPT !.readyQEnd = prevProc]
    ELSE [k EXCEPT !.h = WrPtr(k.h, prevProc + OffNext, PcbNext(k.h, proc))]

procUnlink(k, proc, prevProc) ==
    IF proc = k.readyQ
    THEN LET rq == PcbNext(k.h, proc)
         IN  [k EXCEPT !.readyQ = rq, !.readyQEnd = IF rq = NULL THEN NULL ELSE @]
    ELSE IF proc = k.readyQEnd
    THEN [k EXCEPT !.readyQEnd = prevProc,
                   !.h = WrPtr(k.h, prevProc + OffNext, NULL)]
    ELSE [k EXCEPT !.h = WrPtr(k.h, prevProc + OffNext, PcbNext(k.h, proc))]

\* procDeleteFound that clears runningProc whenever the pid is not queued
procDeleteFoundNoPidTest(k, pid, f, ku) ==
    IF f[3]
    THEN [k EXCEPT !.h.wild = TRUE]
    ELSE IF f[1] # NULL
    THEN [ku EXCEPT !.h = memFree(memFree(ku.h, PcbStackAddr(ku.h, f[1])), f[1])]
    ELSE IF BadLoad(k.h, k.runningProc + OffPid)
    THEN [k EXCEPT !.h.wild = TRUE]
    ELSE [k EXCEPT !.runningProc = NULL]

\* procDeleteFound that returns the stack and the PCB of the running process
\* to the allocator when it deletes itself
procDeleteFoundFreesSelf(k, pid, f, ku) ==
    IF f[3]
    THEN [k EXCEPT !.h.wild = TRUE]
    ELSE IF f[1] # NULL
    THEN [ku EXCEPT !.h = memFree(memFree(ku.h, PcbStackAddr(ku.h, f[1])), f[1])]
    ELSE IF BadLoad(k.h, k.runningProc + OffPid)
    THEN [k EXCEPT !.h.wild = TRUE]
    ELSE IF PcbPid(k.h, k.runningProc) = pid
    THEN [k EXCEPT !.runningProc = NULL,
                   !.h = memFree(memFree(k.h, PcbStackAddr(k.h, k.runningProc)),
                                 k.runningProc)]
    ELSE k

\* the body of procDelete once the search has returned f
procDeleteFound(k, pid, f, ku) ==
    IF f[3]
    THEN [k EXCEPT !.h.wild = TRUE]
    ELSE IF f[1] # NULL
    THEN [ku EXCEPT !.h = memFree(memFree(ku.h, PcbStackAddr(ku.h, f[1])), f[1])]
    ELSE IF BadLoad(k.h, k.runningProc + OffPid)
    THEN [k EXCEPT !.h.wild = TRUE]
    ELSE IF PcbPid(k.h, k.runningProc) = pid
    THEN [k EXCEPT !.runningProc = NULL]
    ELSE k

procDeleteSearch(k, pid, f) ==
    sched(procDeleteFound(k, pid, f, procUnlink(k, f[1], f[2])))

procDelete(k, pid) == procDeleteSearch(k, pid, procFind(k.h, k.readyQ, NULL, pid, Fuel))

procYield(k) == sched(k)

\* ------------------------------------------------------------------------
\* State machine of proctest: main runs memInit and procInit, then the
\* contexts call the process API.  A call that switches the stack suspends
\* its caller inside sched; Resume runs the rest of the call when the
\* caller is dispatched again.
\* ------------------------------------------------------------------------
ProcSpaces == {MaxSpace - 80, MaxSpace}

NewCtx(fn) == [at |-> "user", arg |-> NULL, pid |-> 0, fn |-> fn, ip |-> 0, ret |-> 0]

\* the state before main of proctest.c runs: space[] is a zeroed static array.
\* FnAny stands for a main that makes arbitrary calls instead of the calls of
\* proctest.c
ProcTestInit ==
    /\ \E size \in ProcSpaces :
          mem = [a \in Base .. (Base + size - 1) |-> 0]
    /\ mcb = NULL
    /\ endMem = NULL
    /\ freelist = NULL
    /\ pc = "main"
    /\ step = 0
    /\ ptr = <<NULL, NULL, NULL, NULL>>
    /\ live = {}
    /\ ptrs = {}
    /\ last = NoCall
    /\ ops = 0
    /\ readyQ = NULL
    /\ readyQEnd = NULL
    /\ runningProc = NULL
    /\ procId = 0
    /\ cpu = NULL
    /\ \E fn \in {FnMain, FnAny} :
          /\ fn = FnMain => RegionLen = MaxSpace
          /\ ctx = (NULL :> NewCtx(fn))
    /\ out = <<>>
    /\ p1Pid = 0
    /\ p2Pid = 0
    /\ inits = 0
    /\ leaked = {}

InstallK(k) ==
    /\ Install(k.h)
    /\ readyQ' = k.readyQ
    /\ readyQEnd' = k.readyQEnd
    /\ runningProc' = k.runningProc
    /\ procId' = k.procId

DriverUnchanged == UNCHANGED <<step, ptr, live, ptrs, ops>>

\* a call that loads or stores through a bad pointer does not return
ProcCrash(op, arg) ==
    /\ pc' = "fault"
    /\ last' = [op |-> op, arg |-> arg, ret |-> Fault, waslive |-> FALSE]
    /\ UNCHANGED <<mem, mcb, endMem, freelist>>
    /\ UNCHANGED <<readyQ, readyQEnd, runningProc, procId, cpu, ctx>>

\* the end of a call of the executing context: s is the kernel state and the
\* process switched to, ret the value returned when there was no switch, proc
\* the local proc of procCreate, how names the API, c is ctx without the
\* contexts the call destroyed, nip is the statement the caller continues with
Finish(s, ret, proc, op, arg, how, c, nip) ==
    IF s.k.h.wild \/ (s.to # NULL /\ s.to \notin DOMAIN c)
    THEN ProcCrash(op, arg)
    ELSE /\ InstallK(s.k)
         /\ cpu' = IF s.to = NULL THEN cpu ELSE s.to
         /\ ctx' = IF s.to = NULL
                   THEN [c EXCEPT ![cpu].ret = ret, ![cpu].ip = nip]
                   ELSE [c EXCEPT ![cpu].at = how, ![cpu].arg = proc, ![cpu].ip = nip,
                                  ![cpu].pid = IF how = "create" THEN procId ELSE 0]
         /\ last' = [op |-> op, arg |-> arg,
                     ret |-> IF s.to = NULL THEN ret ELSE Pending,
                     waslive |-> FALSE]
         /\ UNCHANGED pc

FinishCreate(r, start, nip) ==
    Finish(r, r.ret, r.proc, "create", start, "create",
           IF r.proc = NULL
           THEN ctx
           ELSE (r.proc :> [NewCtx(NULL) EXCEPT !.at = "start"]) @@ ctx,
           nip)

DoProcCreate(start, nip) == FinishCreate(procCreate(Kern, start), start, nip)

DoProcYield(nip) == Finish(procYield(Kern), 0, NULL, "yield", 0, "yield", ctx, nip)

DoProcDelete(pid, nip) ==
    LET f == procFind(Heap, readyQ, NULL, pid, Fuel)
        c == [p \in (DOMAIN ctx) \ {f[1]} |-> ctx[p]]
        how == IF f[1] = NULL /\ runningProc # NULL /\ PcbPid(Heap, runningProc) = pid
               THEN "exit"
               ELSE "delete"
    IN  /\ Finish(procDelete(Kern, pid), 0, NULL, "delete", pid, how, c, nip)
        /\ leaked' = IF how = "exit" /\ last'.ret # Fault
                      THEN leaked \cup ({runningProc, PcbStackAddr(Heap, runningProc)} \ {NULL})
                      ELSE leaked

Running == pc = "proc" /\ cpu \in DOMAIN ctx
AtUser(fn) == Running /\ ctx[cpu].at = "user" /\ ctx[cpu].fn = fn

\* proctest.c main: memInit(space, sizeof(space));
MainMemInit ==
    /\ pc = "main"
    /\ Install(memInit(Heap, Base, RegionLen))
    /\ pc' = "init"
    /\ last' = [op |-> "init", arg |-> RegionLen, ret |-> 0, waslive |-> FALSE]
    /\ DriverUnchanged
    /\ UNCHANGED procVars

\* after procInit the caller runs as the process of the new PCB
ProcInitEnd(k) ==
    /\ InstallK(k)
    /\ cpu' = k.runningProc
    /\ ctx' = (k.runningProc :> ctx[cpu])

\* procInit(), called by main and again by the running context
ProcInit ==
    /\ \/ pc = "init"
       \/ AtUser(FnAny) /\ inits < MaxInits
    /\ ProcInitEnd(procInit(Kern, Rsp(Heap, cpu)))
    /\ pc' = "proc"
    /\ inits' = inits + 1
    /\ last' = [op |-> "procInit", arg |-> 0, ret |-> 0, waslive |-> FALSE]
    /\ DriverUnchanged
    /\ UNCHANGED <<out, p1Pid, p2Pid, leaked>>

\* the instructions after the stack switch: the return of sched into the
\* API that called it and the return of that API, or, for a new process,
\* "pop; ret" into the address stored on its stack
Resume ==
    /\ Running
    /\ ctx[cpu].at # "user"
    /\ ctx' = [ctx EXCEPT ![cpu] =
                 IF @.at = "start"
                 THEN [@ EXCEPT !.at = "user",
                                !.fn = Rd(Heap, PcbStackPtr(Heap, cpu) + PtrSize)]
                 ELSE IF @.at = "create"
                 THEN [@ EXCEPT !.at = "user", !.pid = 0,
                                !.ret = PcbPid(Heap, ctx[cpu].arg)]
                 ELSE [@ EXCEPT !.at = "user", !.ret = 0]]
    /\ last' = [op |-> "resume", arg |-> cpu, ret |-> ctx'[cpu].ret, waslive |-> FALSE]
    /\ UNCHANGED <<mem, mcb, endMem, freelist, pc>>
    /\ UNCHANGED <<readyQ, readyQEnd, runningProc, procId, cpu, out, p1Pid, p2Pid, inits>>
    /\ UNCHANGED leaked
    /\ DriverUnchanged

\* calls made in arbitrary order by a context that runs arbitrary code
AnyCreate ==
    /\ AtUser(FnAny)
    /\ ops < MaxCreates
    /\ ops' = ops + 1
    /\ DoProcCreate(FnAny, 0)
    /\ UNCHANGED <<step, ptr, live, ptrs>>
    /\ UNCHANGED <<out, p1Pid, p2Pid, inits, leaked>>

AnyYield ==
    /\ AtUser(FnAny)
    /\ DoProcYield(0)
    /\ DriverUnchanged
    /\ UNCHANGED <<out, p1Pid, p2Pid, inits, leaked>>

\* procDelete of a pid handed out so far or of the pid not yet handed out
AnyDelete ==
    /\ AtUser(FnAny)
    /\ \E pid \in 0 .. procId : DoProcDelete(pid, 0)
    /\ DriverUnchanged
    /\ UNCHANGED <<out, p1Pid, p2Pid, inits>>

\* a start function that returns: its return address is the word above the
\* stack, which is no code
ReturnFromStart ==
    /\ ProcCrash("return", 0)
    /\ UNCHANGED <<out, p1Pid, p2Pid, leaked>>

\* proctest.c main after procInit:
\*   p1Pid = procCreate(process1); for (;;) procYield();
Main ==
    /\ AtUser(FnMain)
    /\ LET ip == ctx[cpu].ip
       IN  \/ /\ ip = 0
              /\ DoProcCreate(FnProcess1, 1)
              /\ UNCHANGED <<out, p1Pid, p2Pid, leaked>>
           \/ /\ ip = 1
              /\ p1Pid' = ctx[cpu].ret
              /\ ctx' = [ctx EXCEPT ![cpu].ip = 2]
              /\ UNCHANGED <<mem, mcb, endMem, freelist, pc, last, out, p2Pid, leaked>>
              /\ UNCHANGED <<readyQ, readyQEnd, runningProc, procId, cpu>>
           \/ /\ ip = 2
              /\ DoProcYield(2)
              /\ UNCHANGED <<out, p1Pid, p2Pid, leaked>>
    /\ DriverUnchanged
    /\ UNCHANGED inits

\* proctest.c process1:
\*   p2Pid = procCreate(process2);
\*   for (i = 0; i < 10; i += 2) { print i; procYield(); print i+1; procYield(); }
\*   procDelete(p1Pid); return 0;
\* statement 2+2j prints j, statement 3+2j is the procYield after it
Process1 ==
    /\ AtUser(FnProcess1)
    /\ LET ip == ctx[cpu].ip
       IN  \/ /\ ip = 0
              /\ DoProcCreate(FnProcess2, 1)
              /\ UNCHANGED <<out, p1Pid, p2Pid, leaked>>
           \/ /\ ip = 1
              /\ p2Pid' = ctx[cpu].ret
              /\ ctx' = [ctx EXCEPT ![cpu].ip = 2]
              /\ UNCHANGED <<mem, mcb, endMem, freelist, pc, last, out, p1Pid, leaked>>
              /\ UNCHANGED <<readyQ, readyQEnd, runningProc, procId, cpu>>
           \/ /\ ip >= 2
              /\ ip < 22
              /\ ip % 2 = 0
              /\ out' = Append(out, <<1, (ip - 2) \div 2>>)
              /\ ctx' = [ctx EXCEPT ![cpu].ip = ip + 1]
              /\ UNCHANGED <<mem, mcb, endMem, freelist, pc, last, p1Pid, p2Pid, leaked>>
              /\ UNCHANGED <<readyQ, readyQEnd, runningProc, procId, cpu>>
           \/ /\ ip >= 2
              /\ ip < 22
              /\ ip % 2 = 1
              /\ DoProcYield(ip + 1)
              /\ UNCHANGED <<out, p1Pid, p2Pid, leaked>>
           \/ /\ ip = 22
              /\ DoProcDelete(p1Pid, 23)
              /\ UNCHANGED <<out, p1Pid, p2Pid>>
           \/ /\ ip = 23
              /\ ReturnFromStart
    /\ DriverUnchanged
    /\ UNCHANGED inits

\* proctest.c process2: print 10; procYield(); ... print 1; procYield();
\*   procDelete(p2Pid); return 0;
\* statement 2j prints 10-j, statement 2j+1 is the procYield after it
Process2 ==
    /\ AtUser(FnProcess2)
    /\ LET ip == ctx[cpu].ip
       IN  \/ /\ ip < 20
              /\ ip % 2 = 0
              /\ out' = Append(out, <<2, 10 - (ip \div 2)>>)
              /\ ctx' = [ctx EXCEPT ![cpu].ip = ip + 1]
              /\ UNCHANGED <<mem, mcb, endMem, freelist, pc, last, p1Pid, p2Pid, leaked>>
              /\ UNCHANGED <<readyQ, readyQEnd, runningProc, procId, cpu>>
           \/ /\ ip < 20
              /\ ip % 2 = 1
              /\ DoProcYield(ip + 1)
              /\ UNCHANGED <<out, p1Pid, p2Pid, leaked>>
           \/ /\ ip = 20
              /\ DoProcDelete(p2Pid, 21)
              /\ UNCHANGED <<out, p1Pid, p2Pid>>
           \/ /\ ip = 21
              /\ ReturnFromStart
    /\ DriverUnchanged
    /\ UNCHANGED inits

ProcNext ==
    \/ MainMemInit
    \/ ProcInit
    \/ Resume
    \/ AnyCreate
    \/ AnyYield
    \/ AnyDelete
    \/ Main
    \/ Process1
    \/ Process2

ProcSpec == ProcTestInit /\ [][ProcNext]_vars

\* ------------------------------------------------------------------------
\* The ready queue as procDelete walks it
\* ------------------------------------------------------------------------
RECURSIVE QueueFrom(_, _, _)
QueueFrom(h, p, fuel) ==
    IF p = NULL \/ fuel = 0 \/ BadLoad(h, p)
    THEN <<>>
    ELSE <<p>> \o QueueFrom(h, PcbNext(h, p), fuel - 1)

ReadyQueue == QueueFrom(Heap, readyQ, Fuel)
ReadyQueueNext == QueueFrom(HeapNext, readyQ', Fuel)

\* the blocks of a list with their magic and size
Shape(h, blocks) ==
    LET bs == blocks
    IN  [i \in DOMAIN bs |-> <<bs[i], GetMagic(h, bs[i]), GetSize(h, bs[i])>>]
ChainShape == Shape(Heap, Chain)
ChainShapeNext == Shape(HeapNext, ChainFrom(HeapNext, mcb', Fuel))
FreeSeqNext == FreeFrom(HeapNext, freelist', Fuel)

\* what the two allocations of procCreate would return in this state
PcbFits == memAlloc(Heap, PcbSize).ret # NULL
StackFits == memAlloc(memAlloc(Heap, PcbSize).h, STACKSZ).ret # NULL

\* ------------------------------------------------------------------------
\* C11: after procInit on an allocator that can supply one PCB the ready
\* queue is empty (readyQ and readyQEnd null), runningProc is the bootstrap
\* PCB with pid 0, state READY and null stack base, and the next pid is 1,
\* whatever the state of the process manager was before the call.
\* ------------------------------------------------------------------------
C11_ProcInitStep ==
    (last'.op = "procInit" /\ PcbFits) =>
        /\ readyQ' = NULL
        /\ readyQEnd' = NULL
        /\ runningProc' = memAlloc(Heap, PcbSize).ret
        /\ PcbPid(HeapNext, runningProc') = 0
        /\ PcbState(HeapNext, runningProc') = READY
        /\ PcbStackAddr(HeapNext, runningProc') = NULL
        /\ procId' = 1

C11_ProcInit == [][C11_ProcInitStep]_vars

\* a second procInit that found PCBs and stacks of earlier processes in the
\* region and still got a PCB
C11_Witness ==
    /\ last.op = "procInit"
    /\ inits = MaxInits
    /\ runningProc # NULL
    /\ Len(Chain) >= 4

\* ------------------------------------------------------------------------
\* C12: when the running process C calls procCreate successfully with ready
\* queue [q1..qn], the new process is the next to execute (it is runningProc
\* right after the switch and its first execution enters start_fn) and the
\* ready queue is then [q1..qn, C].
\* ------------------------------------------------------------------------
C12_CreateStep ==
    (last'.op = "create" /\ last'.ret = Pending /\ runningProc # NULL) =>
        /\ runningProc' = memAlloc(Heap, PcbSize).ret
        /\ cpu' = runningProc'
        /\ ctx'[cpu'].at = "start"
        /\ Rd(HeapNext, PcbStackPtr(HeapNext, runningProc') + PtrSize) = last'.arg
        /\ ReadyQueueNext = ReadyQueue \o <<runningProc>>

C12_NewProcessRunsNext == [][C12_CreateStep]_vars

\* a create with two processes already queued
C12_Witness ==
    /\ last.op = "create"
    /\ last.ret = Pending
    /\ Len(ReadyQueue) = 3
    /\ cpu = runningProc

\* ------------------------------------------------------------------------
\* C13: when the PCB allocation or the stack allocation inside procCreate
\* fails, procCreate returns -1 without running the scheduler, and the ready
\* queue, runningProc, the pid counter and the allocator state (block chain
\* and free list) are the same as before the call.
\* ------------------------------------------------------------------------
C13_FailedCreateStep ==
    (last'.op = "create" /\ ~(PcbFits /\ StackFits)) =>
        /\ last'.ret = 0 - 1
        /\ cpu' = cpu
        /\ ctx'[cpu'].at = "user"
        /\ readyQ' = readyQ
        /\ readyQEnd' = readyQEnd
        /\ ReadyQueueNext = ReadyQueue
        /\ runningProc' = runningProc
        /\ procId' = procId
        /\ mcb' = mcb
        /\ endMem' = endMem
        /\ ChainShapeNext = ChainShape
        /\ FreeSeqNext = FreeSeq

C13_FailedCreate == [][C13_FailedCreateStep]_vars

\* a create that got its PCB and then no stack
C13_Witness ==
    /\ last.op = "create"
    /\ last.ret = 0 - 1
    /\ PcbFits
    /\ ~StackFits

\* a create that got no PCB
C13_WitnessNoPcb ==
    /\ last.op = "create"
    /\ last.ret = 0 - 1
    /\ ~PcbFits

\* ------------------------------------------------------------------------
\* C14: after procInit and after every procCreate, procYield and procDelete
\* readyQEnd is the last PCB of the list starting at readyQ when the queue is
\* non-empty, that PCB's next is null, and readyQ and readyQEnd are both null
\* when the queue is empty.
\* ------------------------------------------------------------------------
C14_TailConsistent ==
    pc = "proc" =>
        IF readyQ = NULL
        THEN readyQEnd = NULL
        ELSE /\ ReadyQueue # <<>>
             /\ readyQEnd = ReadyQueue[Len(ReadyQueue)]
             /\ PcbNext(Heap, readyQEnd) = NULL

\* ------------------------------------------------------------------------
\* C15: no PCB appears more than once in the ready queue, the ready queue is
\* acyclic, and the PCB pointed to by runningProc is not a member of it.
\* ------------------------------------------------------------------------
C15_QueueWellFormed ==
    pc = "proc" =>
        /\ Len(ReadyQueue) < Fuel
        /\ \A i, j \in DOMAIN ReadyQueue : ReadyQueue[i] = ReadyQueue[j] => i = j
        /\ \A i \in DOMAIN ReadyQueue : ~BadLoad(Heap, ReadyQueue[i])
        /\ ReadyQueue # <<>> => PcbNext(Heap, ReadyQueue[Len(ReadyQueue)]) = NULL
        /\ runningProc # NULL => runningProc \notin Range(ReadyQueue)

\* a running process with three processes queued behind it
C15_Witness ==
    /\ pc = "proc"
    /\ runningProc # NULL
    /\ Len(ReadyQueue) = 3

\* ------------------------------------------------------------------------
\* C18: sched, procYield and procDelete always complete: sched never
\* dereferences a null readyQEnd and procDelete never dereferences a null
\* runningProc.
\* ------------------------------------------------------------------------
C18_CallsComplete ==
    ~(pc = "fault" /\ last.op \in {"create", "yield", "delete"})

\* ------------------------------------------------------------------------
\* C16: with N processes (one running, N-1 in the ready queue) that from now
\* on only call procYield, the process dispatched by the k-th yield is the
\* one dispatched by the (k+N)-th yield, and each of the N processes runs
\* exactly once in any N consecutive yields.
\* ------------------------------------------------------------------------
\* the next n calls of procYield from kernel state k: the process running
\* after each call, and whether the call faulted
RECURSIVE YieldRun(_, _)
YieldRun(k, n) ==
    IF n = 0
    THEN <<>>
    ELSE LET s == procYield(k)
         IN  <<[proc |-> s.k.runningProc, wild |-> s.k.h.wild]>> \o YieldRun(s.k, n - 1)

C16_RoundRobin ==
    (pc = "proc" /\ runningProc # NULL) =>
        LET N == Len(ReadyQueue) + 1
            d == YieldRun(Kern, N + N)
        IN  /\ \A k \in 1 .. (N + N) : ~d[k].wild
            /\ \A k \in 1 .. N : d[k].proc = d[k + N].proc
            /\ {d[k].proc : k \in 1 .. N} = Range(ReadyQueue) \cup {runningProc}

\* ------------------------------------------------------------------------
\* C17: when the running process calls procDelete with its own pid, that
\* process never executes again (procDelete does not return into it), and
\* immediately afterwards runningProc is a different, non-deleted process
\* taken from the ready queue.
\* ------------------------------------------------------------------------
SelfDelete(pid) ==
    /\ runningProc # NULL
    /\ PcbPid(Heap, runningProc) = pid
    /\ procFind(Heap, readyQ, NULL, pid, Fuel)[1] = NULL

C17_SelfDeleteStep ==
    /\ (last'.op = "delete" /\ SelfDelete(last'.arg)) =>
          /\ cpu' # cpu
          /\ ReadyQueue # <<>>
          /\ runningProc' = Head(ReadyQueue)
          /\ runningProc' # runningProc
          /\ cpu' = runningProc'
    /\ last'.op = "resume" => ctx[cpu].at # "exit"

C17_SelfDeleteSwitchesAway == [][C17_SelfDeleteStep]_vars

\* ------------------------------------------------------------------------
\* C20: procDelete(pid) with a pid that matches neither a ready-queue PCB
\* nor the running process frees nothing and removes nothing, returns 0, and
\* has exactly the effect of procYield on the ready queue and runningProc.
\* ------------------------------------------------------------------------
UnknownPid(pid) ==
    /\ procFind(Heap, readyQ, NULL, pid, Fuel)[1] = NULL
    /\ runningProc = NULL \/ PcbPid(Heap, runningProc) # pid

C20_UnknownDeleteStep ==
    (last'.op = "delete" /\ UnknownPid(last'.arg) /\ ~procYield(Kern).k.h.wild) =>
        LET y == procYield(Kern).k
        IN  /\ last'.ret # Fault
            /\ cpu' = cpu => ctx'[cpu].ret = 0
            /\ readyQ' = y.readyQ
            /\ readyQEnd' = y.readyQEnd
            /\ runningProc' = y.runningProc
            /\ ReadyQueueNext = QueueFrom(y.h, y.readyQ, Fuel)
            /\ ChainShapeNext = ChainShape
            /\ FreeSeqNext = FreeSeq

C20_UnknownDeleteIsYield == [][C20_UnknownDeleteStep]_vars

\* ------------------------------------------------------------------------
\* C19: scenario S3 (proctest.c) prints exactly Process-2: 10, Process-1: 0,
\* Process-2: 9, Process-1: 1, ..., Process-2: 1, Process-1: 9; both
\* procCreate calls have returned their pids before either process deletes
\* itself; after both self-deletes the bootstrap is the running process with
\* an empty ready queue.
\* ------------------------------------------------------------------------
S3Output ==
    [i \in 1 .. 20 |-> IF i % 2 = 1
                       THEN <<2, 10 - ((i - 1) \div 2)>>
                       ELSE <<1, (i - 2) \div 2>>]

InS3 == \E p \in DOMAIN ctx : ctx[p].fn = FnMain
Exited == {p \in DOMAIN ctx : ctx[p].at = "exit"}
AboutToExit(p) ==
    /\ ctx[p].at = "user"
    /\ \/ ctx[p].fn = FnProcess1 /\ ctx[p].ip = 22
       \/ ctx[p].fn = FnProcess2 /\ ctx[p].ip = 20

C19_ScenarioS3 ==
    InS3 =>
        /\ pc # "fault"
        /\ Len(out) <= Len(S3Output)
        /\ \A i \in DOMAIN out : out[i] = S3Output[i]
        /\ \A p \in DOMAIN ctx :
              (p \in Exited \/ AboutToExit(p)) =>
                  /\ p1Pid = 1
                  /\ p2Pid = 2
                  /\ \A q \in DOMAIN ctx : ctx[q].at # "create"
        /\ Cardinality(Exited) = 2 =>
              /\ out = S3Output
              /\ readyQ = NULL
              /\ readyQEnd = NULL
              /\ runningProc # NULL
              /\ cpu = runningProc
              /\ ctx[cpu].fn = FnMain
              /\ PcbPid(Heap, runningProc) = 0
              /\ PcbStackAddr(Heap, runningProc) = NULL

\* both processes have deleted themselves and main is yielding
C19_Witness ==
    /\ InS3
    /\ Cardinality(Exited) = 2
    /\ out = S3Output
    /\ last.op = "yield"

\* ------------------------------------------------------------------------
\* C21: procDelete of an unknown PID, and procYield with an empty ready
\* queue, each leave the process-manager state unchanged: the same process
\* is running afterwards and the ready queue has the same members in the
\* same order.
\* ------------------------------------------------------------------------
C21_UnchangedStep ==
    (\/ last'.op = "delete" /\ UnknownPid(last'.arg)
     \/ last'.op = "yield" /\ readyQ = NULL) =>
        /\ runningProc' = runningProc
        /\ ReadyQueueNext = ReadyQueue

C21_SilentStep ==
    /\ (last'.op = "yield" /\ readyQ = NULL) =>
          /\ last'.ret = 0
          /\ cpu' = cpu
          /\ ctx'[cpu].at = "user"
          /\ runningProc' = runningProc
          /\ readyQ' = NULL
          /\ readyQEnd' = readyQEnd
          /\ AllocatorUnchanged
    /\ (last'.op = "delete" /\ UnknownPid(last'.arg)) =>
          /\ ChainShapeNext = ChainShape
          /\ FreeSeqNext = FreeSeq
          /\ Range(ReadyQueueNext) \cup {runningProc'} = Range(ReadyQueue) \cup {runningProc}
          /\ last'.ret # Fault =>
                IF readyQ = NULL
                THEN /\ cpu' = cpu
                     /\ ctx'[cpu].ret = 0
                     /\ runningProc' = runningProc
                     /\ readyQ' = NULL
                     /\ readyQEnd' = readyQEnd
                ELSE /\ runningProc' = Head(ReadyQueue)
                     /\ cpu' = runningProc'
                     /\ ReadyQueueNext = Tail(ReadyQueue) \o <<runningProc>>
                     /\ readyQEnd' = runningProc

IndexOf(s, m) == CHOOSE i \in DOMAIN s : s[i] = m

\* the chain after an allocation of new bytes from block i of the chain sh,
\* whose payload was old bytes: the block is USED, what is left of it is one
\* FREE block behind the new payload
Carved(sh, i, old, new) ==
    LET m == sh[i][1]
    IN  SubSeq(sh, 1, i - 1)
        \o <<<<m, MAGIC_USED, new>>>>
        \o (IF new = old
            THEN <<>>
            ELSE <<<<mcbAddr(m) + new, MAGIC_FREE, (old - new) - HeaderSize>>>>)
        \o SubSeq(sh, i + 1, Len(sh))

C22_AllocStep ==
    (last'.op = "alloc" /\ last'.ret \notin {NULL, Fault}) =>
        LET m   == freelist
            old == GetSize(Heap, m)
            new == GetSize(HeapNext, m)
            req == Rounded(last'.arg)
        IN  /\ m \in FreeBlocks
            /\ \A b \in FreeBlocks : GetSize(Heap, b) <= old
            /\ last'.ret = mcbAddr(m)
            /\ new = (IF old - req > MIN_FREE_BLOCK THEN req ELSE old)
            /\ ChainShapeNext = Carved(ChainShape, IndexOf(Chain, m), old, new)
            /\ Range(FreeSeqNext) =
                  (Range(FreeSeq) \ {m})
                  \cup (IF new = old THEN {} ELSE {mcbAddr(m) + new})

C22_HeadCarved == [][C22_AllocStep]_vars

\* an allocation that split the largest free block while a smaller free
\* block lay before it in the region: the remainder and the untouched block
\* are the free list
C22_Witness ==
    /\ last.op = "alloc"
    /\ last.ret \notin {NULL, Fault}
    /\ Len(FreeSeq) = 2
    /\ \E b \in FreeBlocks : b < last.ret - HeaderSize
    /\ \E b \in FreeBlocks :
          b = last.ret + GetSize(Heap, last.ret - HeaderSize)
    /\ GetSize(Heap, FreeSeq[1]) > GetSize(Heap, FreeSeq[2])

\* ------------------------------------------------------------------------
\* C23: provided memInit was called with size >= one header plus the
\* free-link pair, every FREE block in every reachable state has a payload of
\* at least the free-link pair, so the larger/smaller links stored in the
\* payload of a free block never overlap the header of the next block.
\* ------------------------------------------------------------------------
LinkBytes(b) == mcbAddr(b) .. (mcbAddr(b) + LinksSize - 1)

C23_FreeHoldsLinks ==
    (Initialised /\ RegionLen >= HeaderSize + LinksSize) =>
        \A b \in FreeBlocks :
            /\ GetSize(Heap, b) >= LinksSize
            /\ LinkBytes(b) \subseteq DOMAIN mem
            /\ \A c \in Range(Chain) : LinkBytes(b) \cap HeaderBytes(c) = {}

\* a free block that holds exactly its two links, the header of a used block
\* right behind them, left by a memFree
C23_Witness ==
    /\ last.op = "free"
    /\ last.waslive
    /\ \E i \in 1 .. (Len(Chain) - 1) :
          /\ GetMagic(Heap, Chain[i]) = MAGIC_FREE
          /\ GetSize(Heap, Chain[i]) = LinksSize
          /\ GetMagic(Heap, Chain[i + 1]) = MAGIC_USED

\* memInit on the smallest region: the only block holds exactly its links
C23_WitnessSmallest ==
    /\ RegionLen = HeaderSize + LinksSize
    /\ last.op = "free"
    /\ last.waslive
    /\ FreeBlocks = {Base}

\* ------------------------------------------------------------------------
\* C24: after memInit(base, size) for any size permitted by Initialize, and
\* after every memAlloc and memFree, every block's payload size (USED or
\* FREE) is a multiple of sizeof(int).
\* ------------------------------------------------------------------------
C24_SizesAligned ==
    Initialised =>
        \A b \in Range(Chain) : GetSize(Heap, b) % SizeofInt = 0

\* C24 as amended: every block other than the last block in address order has
\* a payload size that is a multiple of sizeof(int); the payload of the last
\* block is congruent to size - sizeof(mcb_t) modulo sizeof(int), so all
\* payload sizes are multiples when the size given to memInit is one.
C24_AlignedButLast ==
    Initialised =>
        /\ Chain # <<>>
        /\ \A i \in 1 .. Len(Chain) :
              GetSize(Heap, Chain[i]) % SizeofInt =
                  (IF i = Len(Chain) THEN (RegionLen - HeaderSize) % SizeofInt ELSE 0)

\* a region whose size is no multiple of sizeof(int): the allocation that
\* took the last block whole got a payload that is no multiple either
C24_Witness ==
    /\ RegionLen % SizeofInt # 0
    /\ last.op = "alloc"
    /\ Len(Chain) >= 3
    /\ last.ret = mcbAddr(Chain[Len(Chain)])
    /\ GetMagic(Heap, Chain[Len(Chain)]) = MAGIC_USED
    /\ GetSize(Heap, Chain[Len(Chain)]) % SizeofInt # 0

\* ------------------------------------------------------------------------
\* C25: the PCB state field follows the READY/RUNNING state machine: the
\* scheduler makes the process it selects RUNNING and the process it
\* re-queues READY, so in every reachable state the running process has
\* state RUNNING and every ready-queue PCB has state READY.
\* ------------------------------------------------------------------------
C25_StateMachine ==
    pc = "proc" =>
        /\ runningProc # NULL => PcbState(Heap, runningProc) = RUNNING
        /\ \A i \in DOMAIN ReadyQueue : PcbState(Heap, ReadyQueue[i]) = READY

\* what the code keeps instead: no PCB ever leaves the state READY
C25_AlwaysReady ==
    pc = "proc" =>
        /\ runningProc # NULL => PcbState(Heap, runningProc) = READY
        /\ \A i \in DOMAIN ReadyQueue : PcbState(Heap, ReadyQueue[i]) = READY

\* ------------------------------------------------------------------------
\* C26: procDelete(pid) of a process in the ready queue, at the head, in the
\* middle or at the tail, removes exactly that PCB from the queue while the
\* others keep their relative order, returns its stack and its PCB to the
\* allocator (only the PCB when it is the bootstrap, whose stack base is
\* null), and that process is never dispatched afterwards.
\* ------------------------------------------------------------------------
\* the PCB procDelete(pid) finds in the ready queue, NULL when there is none
Queued(pid) == procFind(Heap, readyQ, NULL, pid, Fuel)[1]

\* the sequence s without the element p
Without(s, p) == SelectSeq(s, LAMBDA q : q # p)

\* the blocks of a chain that are in use, with their sizes
UsedIn(h, blocks) ==
    LET bs == blocks
    IN  {<<bs[i], GetSize(h, bs[i])>> : i \in {j \in DOMAIN bs : GetMagic(h, bs[j]) = MAGIC_USED}}

UsedBlocks == UsedIn(Heap, Chain)
UsedBlocksNext == UsedIn(HeapNext, ChainFrom(HeapNext, mcb', Fuel))

\* the block whose payload starts at addr, with its size
BlockAt(addr) == <<addr - HeaderSize, GetSize(Heap, addr - HeaderSize)>>

\* the PCBs that can be dispatched or are running
Members == Range(ReadyQueue) \cup ({runningProc} \ {NULL})
MembersNext == Range(ReadyQueueNext) \cup ({runningProc'} \ {NULL})

C26_DeleteStep ==
    (last'.op = "delete" /\ last'.ret # Fault /\ Queued(last'.arg) # NULL) =>
        LET p    == Queued(last'.arg)
            s    == PcbStackAddr(Heap, p)
            rest == Without(ReadyQueue, p)
        IN  /\ p \in Range(ReadyQueue)
            /\ Len(rest) = Len(ReadyQueue) - 1
            /\ IF rest = <<>>
               THEN /\ ReadyQueueNext = <<>>
                    /\ runningProc' = runningProc
                    /\ cpu' = cpu
               ELSE /\ runningProc' = Head(rest)
                    /\ cpu' = Head(rest)
                    /\ ReadyQueueNext = Tail(rest) \o <<runningProc>>
            /\ p \notin MembersNext
            /\ p \notin DOMAIN ctx'
            /\ (s = NULL) <=> (PcbPid(Heap, p) = 0)
            /\ BlockAt(p) \in UsedBlocks
            /\ s # NULL => BlockAt(s) \in UsedBlocks
            /\ UsedBlocksNext =
                  UsedBlocks \ ({BlockAt(p)} \cup (IF s = NULL THEN {} ELSE {BlockAt(s)}))

\* a PCB becomes dispatchable only as the new process of procCreate or
\* procInit, and the processor is only given to the running process
C26_EnterStep ==
    /\ MembersNext \subseteq
          Members \cup (IF last'.op \in {"create", "procInit"}
                        THEN {memAlloc(Heap, PcbSize).ret}
                        ELSE {})
    /\ cpu' # cpu => (cpu' = runningProc' /\ cpu' \in DOMAIN ctx')

C26_QueuedDelete == [][C26_DeleteStep /\ C26_EnterStep]_vars

\* four processes, the running one has deleted one of the three that were
\* queued: the bootstrap was dispatched and the caller queued behind the
\* remaining process
C26_Witness ==
    /\ last.op = "delete"
    /\ last.ret = Pending
    /\ procId = MaxCreates + 1
    /\ Cardinality(DOMAIN ctx) = MaxCreates
    /\ Len(ReadyQueue) = 2
    /\ PcbPid(Heap, runningProc) = 0
    /\ last.arg \notin {PcbPid(Heap, q) : q \in Members}
    /\ ctx[readyQEnd].at = "delete"

\* ------------------------------------------------------------------------
\* C27: when the running process deletes itself, procDelete calls memFree on
\* neither its PCB nor its stack: both allocator blocks stay USED in every
\* later state and no later operation frees them.
\* ------------------------------------------------------------------------
C27_SelfDeleteLeaks ==
    \A a \in leaked :
        /\ (a - HeaderSize) \in Range(Chain)
        /\ GetMagic(Heap, a - HeaderSize) = MAGIC_USED
        /\ a \notin Members

\* a process with a stack of its own has deleted itself, and a later
\* procCreate has been served by the allocator
C27_Witness ==
    /\ Cardinality(leaked) = 2
    /\ last.op = "create"
    /\ last.ret = Pending
    /\ pc = "proc"

\* ------------------------------------------------------------------------
\* C28: in every state reachable by procCreate/procYield/procDelete after
\* memInit and procInit, every PCB reachable from runningProc or the ready
\* queue, and the stack of every such non-bootstrap PCB, is a USED block of
\* the allocator: no process that can still be dispatched has had its PCB or
\* stack freed, and no two such processes share a stack block.
\* ------------------------------------------------------------------------
\* addr is the payload of a block of the chain that is in use and holds size
\* bytes
UsedPayload(addr, size) ==
    /\ (addr - HeaderSize) \in Range(Chain)
    /\ GetMagic(Heap, addr - HeaderSize) = MAGIC_USED
    /\ GetSize(Heap, addr - HeaderSize) >= size

C28_MembersUsed ==
    pc \in {"proc", "fault"} =>
        /\ \A p \in Members :
              /\ UsedPayload(p, PcbSize)
              /\ PcbStackAddr(Heap, p) # NULL => UsedPayload(PcbStackAddr(Heap, p), STACKSZ)
              /\ PcbStackAddr(Heap, p) \notin Members
        /\ \A p \in Members : \A q \in Members :
              (p # q /\ PcbStackAddr(Heap, p) # NULL)
                  => PcbStackAddr(Heap, p) # PcbStackAddr(Heap, q)

\* three processes can be dispatched after a procDelete has returned the PCB
\* and the stack of a fourth to the allocator
C28_Witness ==
    /\ pc = "proc"
    /\ last.op = "delete"
    /\ last.ret = Pending
    /\ procId = MaxCreates + 1
    /\ Cardinality(Members) = 3
    /\ leaked = {}
    /\ \E b \in FreeBlocks : \E p \in Members : b < p

\* ------------------------------------------------------------------------
\* C29: the value a successful procCreate returns to its caller is the PID
\* assigned to the created process at creation, also when the created
\* process was deleted by another process (its PCB freed) before the creator
\* was scheduled again; procCreate never reads a PCB that has been returned
\* to the allocator.
\* ------------------------------------------------------------------------
C29_ReturnStep ==
    (last'.op = "resume" /\ ctx[cpu].at = "create") =>
        /\ ctx'[cpu].ret = ctx[cpu].pid
        /\ UsedPayload(ctx[cpu].arg, PcbSize)

C29_CreateReturnsPid == [][C29_ReturnStep]_vars

====
